---- MODULE Spec2Model ----
(***************************************************************************)
(* A model of src/blockchain.py: the Blockchain class (ledger, hashing,    *)
(* proof of work, chain validation, consensus) and the Flask handlers that *)
(* drive it.                                                               *)
(*                                                                         *)
(* Representation of Python values:                                        *)
(*   - a str used as a previous_hash is a tuple: the literal "1" is        *)
(*     <<"1">>, the empty string is <<"">>, a SHA-256 hex digest is        *)
(*     <<"sha256", preimage>> (hashlib.sha256 is taken to be free of       *)
(*     collisions: equal digests iff equal serialisations);                *)
(*   - None is the empty tuple;                                            *)
(*   - a dict is a record, a list is a sequence.                           *)
(***************************************************************************)
EXTENDS Integers, Sequences, FiniteSets, TLC

VARIABLES chain, current_transactions, nodes, ticket, kept, obs, call, handlers,
          resolver

vars == <<chain, current_transactions, nodes, ticket, kept, obs, call, handlers, resolver>>

(***************************************************************************)
(* Bounds of the model.                                                    *)
(***************************************************************************)
MaxChain == 3        \* the handlers stop extending a chain of this length
MaxTx == 2           \* transactions submitted and not lost, at most
MaxAmount == 2       \* amounts submitted are 1..MaxAmount
MaxProof == 20       \* the proof search is followed up to this value
MaxPeerLen == 5      \* peers serve chains of up to this many blocks
MaxLastProof == 30   \* an observed proof search is given 0..MaxLastProof, or 100
MaxBeside == 1       \* transactions submitted beside concurrent handlers, at most

(***************************************************************************)
(* Python values.                                                          *)
(***************************************************************************)
None == <<>>

EmptyStr == <<"">>

Sentinel == <<"1">>

NodeId == "node"

Falsy(v) == v = None \/ v = EmptyStr

\* the values time() returns; a timestamp only enters the hash of its block
Times == {0}

(***************************************************************************)
(* str(n) for a non-negative integer: its decimal digits.                  *)
(***************************************************************************)
RECURSIVE Str(_)
Str(n) == IF n < 10 THEN <<n>> ELSE Append(Str(n \div 10), n % 10)

(***************************************************************************)
(* hashlib.sha256(bytes).hexdigest()[:4] for the bytes of a decimal        *)
(* string.  SHA-256 itself is outside the repository; it is modelled as a  *)
(* fixed deterministic mixing function of the digits whose first hex digit *)
(* takes 13 values, so that the brute-force search of proof_of_work ends   *)
(* within MaxProof.  The result is the 4 leading hex digits.               *)
(***************************************************************************)
RECURSIVE Mix(_, _)
Mix(h, s) == IF s = <<>> THEN h ELSE Mix((h * 3 + Head(s) + 1) % 13, Tail(s))

Sha256Hex4(s) == <<1 + Mix(5, s), 2, 3, 4>>

(***************************************************************************)
(* valid_proof: the digest of f'{last_proof}{proof}' starts with "1234".   *)
(***************************************************************************)
valid_proof(last_proof, proof) ==
    LET guess == Str(last_proof) \o Str(proof)
        guess_hash == Sha256Hex4(guess)
    IN  guess_hash = <<1, 2, 3, 4>>

(***************************************************************************)
(* proof_of_work: proof = 0; while not valid_proof: proof += 1.            *)
(* The loop is followed up to MaxProof; -1 stands for a search that has    *)
(* not ended by then.                                                      *)
(***************************************************************************)
RECURSIVE proof_search(_, _)
proof_search(last_proof, proof) ==
    IF proof > MaxProof THEN -1
    ELSE IF valid_proof(last_proof, proof) THEN proof
    ELSE proof_search(last_proof, proof + 1)

proof_of_work(last_proof) == proof_search(last_proof, 0)

(***************************************************************************)
(* hash: sha256 of json.dumps(block, sort_keys=True).  The serialisation   *)
(* lists the keys in sorted order, each with its value; the transactions   *)
(* list keeps its order and each transaction is serialised the same way.   *)
(***************************************************************************)
json_dumps_tx(tx) ==
    <<"amount", tx.amount, "recipient", tx.recipient, "sender", tx.sender>>

json_dumps(block) ==
    <<"index", block.index,
      "previous_hash", block.previous_hash,
      "proof", block.proof,
      "timestamp", block.timestamp,
      "transactions",
          [i \in 1..Len(block.transactions) |-> json_dumps_tx(block.transactions[i])]>>

hash(block) == <<"sha256", json_dumps(block)>>

(***************************************************************************)
(* The ledger: Blockchain.new_block, new_transaction, last_block.          *)
(***************************************************************************)
last_block(ch) == ch[Len(ch)]

\* new_block taking the default previous_hash from the first block
new_block_hash_of_first(ch, pool, proof, previous_hash, t) ==
    [index |-> Len(ch) + 1,
     timestamp |-> t,
     transactions |-> pool,
     proof |-> proof,
     previous_hash |-> IF Falsy(previous_hash) THEN hash(ch[1])
                       ELSE previous_hash]

\* the dict built by new_block; t is the value time() returns
new_block(ch, pool, proof, previous_hash, t) ==
    [index |-> Len(ch) + 1,
     timestamp |-> t,
     transactions |-> pool,
     proof |-> proof,
     previous_hash |-> IF Falsy(previous_hash) THEN hash(last_block(ch))
                       ELSE previous_hash]

\* new_transaction putting the transaction first
new_transaction_prepend(pool, sender, recipient, amount) ==
    <<[sender |-> sender, recipient |-> recipient, amount |-> amount]>> \o pool

\* the list after new_transaction's append
new_transaction(pool, sender, recipient, amount) ==
    Append(pool, [sender |-> sender, recipient |-> recipient, amount |-> amount])

\* new_transaction returning the index of the last block
new_transaction_index_of_last(ch) == last_block(ch).index

\* the value new_transaction returns
new_transaction_index(ch) == last_block(ch).index + 1

\* the first block created with proof 0
genesis_proof_zero(t) == new_block(<<>>, <<>>, 0, Sentinel, t)

\* the block Blockchain.__init__ creates: new_block(previous_hash='1', proof=100)
genesis(t) == new_block(<<>>, <<>>, 100, Sentinel, t)

(***************************************************************************)
(* valid_chain, for a non-empty list (chain[0] raises IndexError on an     *)
(* empty one): the while loop from current_index on.                       *)
(***************************************************************************)
\* the loop stopping one block before the end of the list
RECURSIVE valid_chain_loop_short(_, _, _)
valid_chain_loop_short(ch, last, current_index) ==
    IF ~(current_index < Len(ch)) THEN TRUE
    ELSE LET curr_block == ch[current_index]
         IN  IF curr_block.previous_hash # hash(last) THEN FALSE
             ELSE IF ~valid_proof(last.proof, curr_block.proof) THEN FALSE
             ELSE valid_chain_loop_short(ch, curr_block, current_index + 1)

RECURSIVE valid_chain_loop(_, _, _)
valid_chain_loop(ch, last, current_index) ==
    IF ~(current_index < Len(ch) + 1) THEN TRUE
    ELSE LET curr_block == ch[current_index]
         IN  IF curr_block.previous_hash # hash(last) THEN FALSE
             ELSE IF ~valid_proof(last.proof, curr_block.proof) THEN FALSE
             ELSE valid_chain_loop(ch, curr_block, current_index + 1)

\* valid_chain without the proof of work check
RECURSIVE valid_chain_hash_only(_)
valid_chain_hash_only(ch) ==
    \/ Len(ch) < 2
    \/ /\ ch[Len(ch)].previous_hash = hash(ch[Len(ch) - 1])
       /\ valid_chain_hash_only(SubSeq(ch, 1, Len(ch) - 1))

\* positions are 1-based here: chain[0] is ch[1], current_index = 1 is ch[2]
valid_chain(ch) == valid_chain_loop(ch, ch[1], 2)

valid_chain_raises(ch) == ch = <<>>

\* how a call of valid_chain ends
valid_chain_result(ch) ==
    IF valid_chain_raises(ch) THEN "IndexError"
    ELSE IF valid_chain(ch) THEN "True"
    ELSE "False"

\* the number of pairs the loop prints (lines 115-117), one per iteration
\* it enters
RECURSIVE valid_chain_prints(_, _, _)
valid_chain_prints(ch, last, current_index) ==
    IF ~(current_index < Len(ch) + 1) THEN 0
    ELSE LET curr_block == ch[current_index]
         IN  1 + (IF curr_block.previous_hash # hash(last) THEN 0
                  ELSE IF ~valid_proof(last.proof, curr_block.proof) THEN 0
                  ELSE valid_chain_prints(ch, curr_block, current_index + 1))

(***************************************************************************)
(* register_node: urlparse(address).netloc is added to the set.  An        *)
(* address is the triple of the parts urlparse separates.                  *)
(***************************************************************************)
Addresses ==
    { [scheme |-> "http", netloc |-> "a:5000", path |-> ""],
      [scheme |-> "http", netloc |-> "a:5000", path |-> "/chain"],
      [scheme |-> "https", netloc |-> "b:5000", path |-> ""] }

urlparse_netloc(address) == address.netloc

register_node(ns, address) == ns \cup {urlparse_netloc(address)}

(***************************************************************************)
(* What a peer may answer to GET /chain.  A peer's chain is mined the way  *)
(* mine() does it (reward transaction, proof_of_work, hash of the last     *)
(* block) by a node with another id, and may then be tampered with.        *)
(***************************************************************************)
reward(who) == [sender |-> "0", recipient |-> who, amount |-> 1]

RECURSIVE peer_chain(_, _)
peer_chain(who, n) ==
    IF n <= 1 THEN <<genesis(0)>>
    ELSE LET c == peer_chain(who, n - 1)
         IN  Append(c, new_block(c, <<reward(who)>>,
                                 proof_of_work(last_block(c).proof),
                                 hash(last_block(c)), 0))

\* block i carries a digest that is not the digest of block i-1
BadHash(c, i) == [c EXCEPT ![i].previous_hash = hash(c[i])]

\* the last block carries another proof
BadProof(c) == [c EXCEPT ![Len(c)].proof = c[Len(c)].proof + 1]

\* the last block carries another index
BadIndex(c) == [c EXCEPT ![Len(c)].index = c[Len(c)].index + 1]

\* the chain without its first block
NoGenesis(c) == Tail(c)

\* the first block carries another timestamp
BadFirst(c) == [c EXCEPT ![1].timestamp = c[1].timestamp + 1]

LongPeer == peer_chain("peer1", MaxPeerLen)

PeerChains ==
    { peer_chain("peer1", n) : n \in 1..MaxPeerLen }
    \cup { peer_chain("peer2", MaxPeerLen - 1),
           BadHash(LongPeer, MaxPeerLen), BadHash(LongPeer, 2), BadProof(LongPeer),
           NoGenesis(LongPeer), BadIndex(peer_chain("peer1", 2)),
           <<>> }

\* a length a peer reports for a chain that is shorter
LieLen == MaxPeerLen + 1

Response(exc, status_code, length, ch) ==
    [exc |-> exc, status_code |-> status_code, length |-> length, chain |-> ch]

\* exc: requests.get raised (transport failure, timeout) instead of returning
Responses ==
    { Response(FALSE, 200, Len(c), c) : c \in PeerChains }
    \cup { Response(FALSE, 200, LieLen, c) : c \in {d \in PeerChains : Len(d) < 2} }
    \cup { Response(FALSE, 500, MaxPeerLen, LongPeer),
           Response(TRUE, 0, 0, <<>>) }

(***************************************************************************)
(* resolve_conflicts: the for loop over the responses of the neighbours,   *)
(* in iteration order.  st is [max_length, new_chain, raised]; raised      *)
(* means an exception left the method (requests.get raised, or             *)
(* valid_chain raised IndexError on an empty list).                        *)
(***************************************************************************)
\* the loop without the call of valid_chain
RECURSIVE resolve_loop_unchecked(_, _)
resolve_loop_unchecked(st, resps) ==
    IF resps = <<>> THEN st
    ELSE LET response == Head(resps)
         IN  IF response.exc THEN [st EXCEPT !.raised = TRUE]
             ELSE IF response.status_code = 200 /\ response.length > st.max_length
             THEN resolve_loop_unchecked([max_length |-> response.length,
                                          new_chain |-> response.chain,
                                          raised |-> FALSE], Tail(resps))
             ELSE resolve_loop_unchecked(st, Tail(resps))

\* the loop comparing with >= in place of >
RECURSIVE resolve_loop_ge(_, _)
resolve_loop_ge(st, resps) ==
    IF resps = <<>> THEN st
    ELSE LET response == Head(resps)
         IN  IF response.exc THEN [st EXCEPT !.raised = TRUE]
             ELSE IF response.status_code = 200 /\ response.length >= st.max_length
             THEN IF valid_chain_raises(response.chain)
                  THEN [st EXCEPT !.raised = TRUE]
                  ELSE IF valid_chain(response.chain)
                  THEN resolve_loop_ge([max_length |-> response.length,
                                        new_chain |-> response.chain,
                                        raised |-> FALSE], Tail(resps))
                  ELSE resolve_loop_ge(st, Tail(resps))
             ELSE resolve_loop_ge(st, Tail(resps))

RECURSIVE resolve_loop(_, _)
resolve_loop(st, resps) ==
    IF resps = <<>> THEN st
    ELSE LET response == Head(resps)
         IN  IF response.exc THEN [st EXCEPT !.raised = TRUE]
             ELSE IF response.status_code = 200
             THEN LET length == response.length
                      ch == response.chain
                  IN  IF length > st.max_length
                      THEN IF valid_chain_raises(ch)
                           THEN [st EXCEPT !.raised = TRUE]
                           ELSE IF valid_chain(ch)
                           THEN resolve_loop([max_length |-> length, new_chain |-> ch,
                                              raised |-> FALSE], Tail(resps))
                           ELSE resolve_loop(st, Tail(resps))
                      ELSE resolve_loop(st, Tail(resps))
             ELSE resolve_loop(st, Tail(resps))

\* the outcome of resolve_conflicts: the chain afterwards and the result
resolve_conflicts(ch, resps) ==
    LET st == resolve_loop([max_length |-> Len(ch), new_chain |-> None,
                            raised |-> FALSE], resps)
    IN  IF st.raised THEN [chain |-> ch, result |-> "raise"]
        ELSE IF st.new_chain # None THEN [chain |-> st.new_chain, result |-> "True"]
        ELSE [chain |-> ch, result |-> "False"]

(***************************************************************************)
(* State after construction: blockchain = Blockchain().                    *)
(*   ticket  for one followed transaction: the index its submission        *)
(*           returned, its position in the pool, whether the last block's  *)
(*           index was the chain's length at that time, whether the chain  *)
(*           was replaced while it was pending, and the index of the       *)
(*           block that embedded it (0 while it is pending)                *)
(*   kept    every new_block call so far was given what its docstring      *)
(*           asks for: a proof that passes valid_proof against the last    *)
(*           block, and no previous_hash or the hash of the last block     *)
(*   obs     an observed resolve_conflicts call: the chain it started      *)
(*           from, the responses it received, what it returned             *)
(*   call    an observed call of valid_chain or proof_of_work: its         *)
(*           argument, its progress and what it returned                   *)
(*   handlers  the GET /mine requests in progress when requests are served *)
(*           concurrently: for each, the next statement, the locals        *)
(*           (block: the dict new_block has built; alias: its              *)
(*           'transactions' is still the list the pool refers to), and     *)
(*           what other requests did since it read the last block          *)
(*   resolver  a resolve_conflicts call in progress beside them: its next  *)
(*           statement and its locals                                      *)
(***************************************************************************)
Handlers == {1, 2}

Idle == [pc |-> "idle", last_block |-> None, proof |-> 0, previous_hash |-> None,
         block |-> None, alias |-> FALSE, during |-> {}]

\* the statements of mine() between its read of the last block and the
\* append that ends new_block
InFlight == {"new_transaction", "new_block", "reset", "append"}

\* handlers, with event e recorded in those that are between the two
Noted(e) ==
    [h \in Handlers |->
        IF handlers[h].pc \in InFlight
        THEN [handlers[h] EXCEPT !.during = @ \cup {e}]
        ELSE handlers[h]]

Init ==
    /\ \E t \in Times : chain = <<genesis(t)>>
    /\ current_transactions = <<>>
    /\ nodes = {}
    /\ ticket = None
    /\ kept = TRUE
    /\ obs = None
    /\ call = None
    /\ handlers = [h \in Handlers |-> Idle]
    /\ resolver = None

\* before `blockchain = Blockchain()` has run: the object has no fields yet
Unbuilt ==
    /\ chain = None
    /\ current_transactions = None
    /\ nodes = {}
    /\ ticket = None
    /\ kept = TRUE
    /\ obs = None
    /\ call = None
    /\ handlers = [h \in Handlers |-> Idle]
    /\ resolver = None

\* Blockchain.__init__: chain = [], current_transactions = [], the first
\* new_block, nodes = set()
Blockchain ==
    /\ chain = None
    /\ \E t \in Times : chain' = <<genesis(t)>>
    /\ current_transactions' = <<>>
    /\ nodes' = {}
    /\ UNCHANGED <<ticket, kept, obs, call, handlers, resolver>>

Ticket(index, pos, ch) ==
    [index |-> index, pos |-> pos, aligned |-> (last_block(ch).index = Len(ch)),
     replaced |-> FALSE, embedded |-> 0]

Pending == ticket # None /\ ticket.embedded = 0

KeepsContract(ch, proof, previous_hash) ==
    /\ valid_proof(last_block(ch).proof, proof)
    /\ Falsy(previous_hash) \/ previous_hash = hash(last_block(ch))

(***************************************************************************)
(* GET /mine, run without interleaving.                                    *)
(***************************************************************************)
\* the handler without the call that adds the reward
mine_without_reward ==
    /\ Len(chain) < MaxChain
    /\ LET last == last_block(chain)
           last_proof == last.proof
           proof == proof_of_work(last_proof)
           pool == current_transactions
           previous_hash == hash(last)
       IN  /\ proof # -1
           /\ \E t \in Times :
                LET block == new_block(chain, pool, proof, previous_hash, t)
                IN  /\ chain' = Append(chain, block)
                    /\ current_transactions' = <<>>
                    /\ kept' = (kept /\ KeepsContract(chain, proof, previous_hash))
                    /\ ticket' = IF Pending
                                 THEN [ticket EXCEPT !.embedded = block.index]
                                 ELSE ticket
    /\ UNCHANGED <<nodes, obs, call, handlers, resolver>>

mine ==
    /\ Len(chain) < MaxChain
    /\ LET last == last_block(chain)
           last_proof == last.proof
           proof == proof_of_work(last_proof)
           pool == new_transaction(current_transactions, "0", NodeId, 1)
           previous_hash == hash(last)
       IN  /\ proof # -1
           /\ \E t \in Times :
                LET block == new_block(chain, pool, proof, previous_hash, t)
                IN  /\ chain' = Append(chain, block)
                    /\ current_transactions' = <<>>
                    /\ kept' = (kept /\ KeepsContract(chain, proof, previous_hash))
                    /\ ticket' = IF Pending
                                 THEN [ticket EXCEPT !.embedded = block.index]
                                 ELSE ticket
    /\ UNCHANGED <<nodes, obs, call, handlers, resolver>>

(***************************************************************************)
(* POST /transactions/new.  values is the JSON body: a function from the   *)
(* keys it has to their values.                                            *)
(***************************************************************************)
\* the transactions of a chain and a pool that did not come from mine()
RECURSIVE Submitted(_)
Submitted(txs) ==
    IF txs = <<>> THEN 0
    ELSE (IF Head(txs).sender = "0" THEN 0 ELSE 1) + Submitted(Tail(txs))

RECURSIVE SubmittedIn(_)
SubmittedIn(ch) ==
    IF ch = <<>> THEN 0
    ELSE Submitted(Head(ch).transactions) + SubmittedIn(Tail(ch))

RoomForTx == SubmittedIn(chain) + Submitted(current_transactions) < MaxTx

Senders == {"alice"}

Recipients == {"bob"}

Bodies ==
    [sender : Senders, recipient : Recipients, amount : 1..MaxAmount]
    \cup [sender : Senders, recipient : Recipients]

\* JSON null as the value of a key (get_json() gives None); the amounts
\* that are numbers are positive
JsonNull == 0 - 1

\* bodies with a key missing, and bodies with all keys and a null amount
PartialBodies ==
    [sender : Senders, recipient : Recipients]
    \cup [recipient : Recipients, amount : 1..MaxAmount]
    \cup [sender : Senders, recipient : Recipients, amount : {JsonNull}]

required == {"sender", "recipient", "amount"}

\* the handler when new_block leaves the pool's list in the block it made:
\* the append goes to the pool and to that block alike
Submit_aliased(values, followed) ==
    IF ~(\A k \in required : k \in DOMAIN values)
    THEN UNCHANGED vars
    ELSE /\ current_transactions' =
               new_transaction(current_transactions, values.sender,
                               values.recipient, values.amount)
         /\ chain' = IF Len(chain) > 1
                     THEN [chain EXCEPT ![Len(chain)].transactions =
                              new_transaction(@, values.sender, values.recipient,
                                              values.amount)]
                     ELSE chain
         /\ UNCHANGED <<nodes, ticket, kept, obs, call, handlers, resolver>>

\* the handler putting the transaction into the last block of the chain
Submit_into_last_block(values, followed) ==
    IF ~(\A k \in required : k \in DOMAIN values)
    THEN UNCHANGED vars
    ELSE /\ chain' = [chain EXCEPT ![Len(chain)].transactions =
                          new_transaction(@, values.sender, values.recipient,
                                          values.amount)]
         /\ handlers' = Noted("submit")
         /\ UNCHANGED <<current_transactions, nodes, ticket, kept, obs, call, resolver>>

\* the handler on the body values
Submit(values, followed) ==
    IF ~(\A k \in required : k \in DOMAIN values)
    THEN UNCHANGED vars   \* 'Missing values for transaction', 400
    ELSE LET index == new_transaction_index(chain)
         IN  /\ current_transactions' =
                   new_transaction(current_transactions, values.sender,
                                   values.recipient, values.amount)
             /\ ticket' = IF followed
                          THEN Ticket(index, Len(current_transactions) + 1, chain)
                          ELSE ticket
             /\ handlers' = Noted("submit")
             /\ UNCHANGED <<chain, nodes, kept, obs, call, resolver>>

TransactionsNew(followed) ==
    /\ RoomForTx
    /\ \E values \in Bodies : Submit(values, followed)

transactions_new == TransactionsNew(FALSE)

\* a submission with any body, partial ones included
transactions_new_any ==
    /\ RoomForTx
    /\ \E values \in Bodies \cup PartialBodies : Submit(values, FALSE)

\* the submission of the transaction that ticket follows
transactions_new_followed == ticket = None /\ TransactionsNew(TRUE)

(***************************************************************************)
(* blockchain.register_node(address)                                       *)
(***************************************************************************)
register ==
    /\ \E address \in Addresses : nodes' = register_node(nodes, address)
    /\ UNCHANGED <<chain, current_transactions, ticket, kept, obs, call, handlers, resolver>>

(***************************************************************************)
(* blockchain.resolve_conflicts(): resps[i] is the answer of the i-th       *)
(* neighbour the for loop visits (a set is visited in any order, and any   *)
(* neighbour may give any of Responses).                                   *)
(***************************************************************************)
Resolve(observed) ==
    \E resps \in [1..Cardinality(nodes) -> Responses] :
        LET out == resolve_conflicts(chain, resps)
        IN  /\ chain' = out.chain
            /\ ticket' = IF out.result = "True" /\ Pending
                         THEN [ticket EXCEPT !.replaced = TRUE]
                         ELSE ticket
            /\ obs' = IF observed
                      THEN [local |-> chain, resps |-> resps, result |-> out.result]
                      ELSE obs
            /\ UNCHANGED <<current_transactions, nodes, kept, call, handlers, resolver>>

resolve == Resolve(FALSE)

resolve_observed == Resolve(TRUE)

(***************************************************************************)
(* GET /mine served concurrently with other requests (app.run serves each  *)
(* request in its own thread): handler h runs the statements of mine() and *)
(* of new_block one at a time.  The search of proof_of_work uses only the  *)
(* local last_proof and is taken together with the read.                   *)
(***************************************************************************)
\* lines 168-170: last_block = blockchain.last_block, and the search
mine_read(h) ==
    /\ handlers[h].pc = "idle"
    /\ Len(chain) < MaxChain
    /\ LET last == last_block(chain)
           proof == proof_of_work(last.proof)
       IN  /\ proof # -1
           /\ handlers' = [handlers EXCEPT ![h] =
                  [Idle EXCEPT !.pc = "new_transaction", !.last_block = last,
                               !.proof = proof]]
    /\ UNCHANGED <<chain, current_transactions, nodes, ticket, kept, obs, call, resolver>>

\* the hash taken of the chain's last block at that time
mine_new_transaction_rereading(h) ==
    /\ handlers[h].pc = "new_transaction"
    /\ current_transactions' = new_transaction(current_transactions, "0", NodeId, 1)
    /\ handlers' = [handlers EXCEPT ![h].pc = "new_block",
                                    ![h].previous_hash = hash(last_block(chain))]
    /\ UNCHANGED <<chain, nodes, ticket, kept, obs, call, resolver>>

\* lines 174-181: the reward is appended to the pool; the hash of the block
\* that was read
mine_new_transaction(h) ==
    /\ handlers[h].pc = "new_transaction"
    /\ current_transactions' = new_transaction(current_transactions, "0", NodeId, 1)
    /\ handlers' = [handlers EXCEPT ![h].pc = "new_block",
                                    ![h].previous_hash = hash(handlers[h].last_block)]
    /\ UNCHANGED <<chain, nodes, ticket, kept, obs, call, resolver>>

\* new_block called without previous_hash
new_block_build_default_hash(h) ==
    /\ handlers[h].pc = "new_block"
    /\ \E t \in Times :
         handlers' = [handlers EXCEPT
             ![h].pc = "reset",
             ![h].block = new_block(chain, current_transactions, handlers[h].proof,
                                    None, t),
             ![h].alias = TRUE]
    /\ UNCHANGED <<chain, current_transactions, nodes, ticket, kept, obs, call, resolver>>

\* lines 34-40: the dict is built; its 'transactions' is the pool's list
\* itself, not a copy
new_block_build(h) ==
    /\ handlers[h].pc = "new_block"
    /\ \E t \in Times :
         handlers' = [handlers EXCEPT
             ![h].pc = "reset",
             ![h].block = new_block(chain, current_transactions, handlers[h].proof,
                                    handlers[h].previous_hash, t),
             ![h].alias = TRUE]
    /\ UNCHANGED <<chain, current_transactions, nodes, ticket, kept, obs, call, resolver>>

\* a dict whose 'transactions' is the pool's list holds what the list holds
Detached(g) ==
    IF handlers[g].alias
    THEN [handlers[g] EXCEPT !.block.transactions = current_transactions,
                             !.alias = FALSE]
    ELSE handlers[g]

\* line 42: the pool refers to a new empty list; the old list stays with the
\* dicts built from it
new_block_reset(h) ==
    /\ handlers[h].pc = "reset"
    /\ current_transactions' = <<>>
    /\ handlers' = [g \in Handlers |->
                       IF g = h THEN [Detached(g) EXCEPT !.pc = "append"]
                       ELSE Detached(g)]
    /\ UNCHANGED <<chain, nodes, ticket, kept, obs, call, resolver>>

\* what handler g records when handler h appends its block
NotedCommit(h, g) ==
    IF g # h /\ handlers[g].pc \in InFlight
    THEN [handlers[g] EXCEPT !.during =
             @ \cup {"commit"}
               \cup (IF handlers[g].last_block = handlers[h].last_block
                     THEN {"raced"} ELSE {})]
    ELSE handlers[g]

\* line 43: self.chain.append(new_block); then lines 184-191, the response
\* made from the local block, and the handler is over
new_block_append(h) ==
    /\ handlers[h].pc = "append"
    /\ chain' = Append(chain, handlers[h].block)
    /\ handlers' = [g \in Handlers |-> IF g = h THEN Idle ELSE NotedCommit(h, g)]
    /\ UNCHANGED <<current_transactions, nodes, ticket, kept, obs, call, resolver>>

\* POST /transactions/new beside the handlers; the handler's one statement
\* on shared state is the append of new_transaction
transactions_new_beside ==
    /\ SubmittedIn(chain) + Submitted(current_transactions) < MaxBeside
    /\ \E values \in [sender : Senders, recipient : Recipients, amount : {1}] :
         Submit(values, FALSE)

(***************************************************************************)
(* resolve_conflicts called beside the handlers, statement by statement:   *)
(* the read of len(self.chain), the loop of fetches, the assignment.  A    *)
(* peer answers with its length and a chain it mined, or with a copy of    *)
(* this node's chain (it adopted it).                                      *)
(***************************************************************************)
RaceResponses ==
    { Response(FALSE, 200, n, peer_chain("peer1", n)) : n \in 1..MaxPeerLen }
    \cup { Response(FALSE, 200, Len(chain), chain) }

\* lines 137-139
resolve_start ==
    /\ resolver = None
    /\ resolver' = [pc |-> "fetch", max_length |-> Len(chain), new_chain |-> None]
    /\ UNCHANGED <<chain, current_transactions, nodes, ticket, kept, obs, call, handlers>>

\* lines 142-149
resolve_fetch ==
    /\ resolver # None
    /\ resolver.pc = "fetch"
    /\ \E resps \in [1..Cardinality(nodes) -> RaceResponses] :
         LET st == resolve_loop([max_length |-> resolver.max_length,
                                 new_chain |-> None, raised |-> FALSE], resps)
         IN  resolver' = IF st.raised THEN None
                         ELSE [pc |-> "assign", max_length |-> st.max_length,
                               new_chain |-> st.new_chain]
    /\ UNCHANGED <<chain, current_transactions, nodes, ticket, kept, obs, call, handlers>>

\* lines 151-154
resolve_assign ==
    /\ resolver # None
    /\ resolver.pc = "assign"
    /\ IF resolver.new_chain # None
       THEN chain' = resolver.new_chain /\ handlers' = Noted("replace")
       ELSE UNCHANGED <<chain, handlers>>
    /\ resolver' = None
    /\ UNCHANGED <<current_transactions, nodes, ticket, kept, obs, call>>

(***************************************************************************)
(* blockchain.valid_chain(chain) on any list of blocks: the ledger's own   *)
(* chain, a chain mined by a peer, or one tampered with at any place.      *)
(***************************************************************************)
Miners == {"peer1", "peer2"}

ValidatorArgs ==
    PeerChains
    \cup { peer_chain(w, n) : w \in Miners, n \in 1..MaxPeerLen }
    \cup { BadFirst(peer_chain(w, n)) : w \in Miners, n \in 2..MaxPeerLen }
    \cup { BadProof(peer_chain(w, n)) : w \in Miners, n \in 2..MaxPeerLen }
    \cup UNION { { BadHash(peer_chain(w, n), i) : i \in 2..n } :
                    w \in Miners, n \in 2..MaxPeerLen }

call_valid_chain ==
    /\ \E ch \in ValidatorArgs \cup {chain} :
         call' = [fn |-> "valid_chain", chain |-> ch,
                  result |-> valid_chain_result(ch),
                  printed |-> IF valid_chain_raises(ch) THEN 0
                              ELSE valid_chain_prints(ch, ch[1], 2)]
    /\ UNCHANGED <<chain, current_transactions, nodes, ticket, kept, obs, handlers, resolver>>

(***************************************************************************)
(* blockchain.proof_of_work(last_proof), one loop iteration at a time.     *)
(* call.proof is the local proof; the loop is followed while it is at most *)
(* MaxProof.                                                               *)
(***************************************************************************)
LastProofs == 0..MaxLastProof \cup {100}

\* the locals with the search starting at 1
pow_start_from_one(last_proof) ==
    [fn |-> "proof_of_work", last_proof |-> last_proof, proof |-> 1, done |-> FALSE]

\* the locals after `proof = 0`
pow_start(last_proof) ==
    [fn |-> "proof_of_work", last_proof |-> last_proof, proof |-> 0, done |-> FALSE]

Searching == call # None /\ call.fn = "proof_of_work" /\ ~call.done

call_proof_of_work ==
    /\ call = None
    /\ \E last_proof \in LastProofs \cup {last_block(chain).proof} :
         call' = pow_start(last_proof)
    /\ UNCHANGED <<chain, current_transactions, nodes, ticket, kept, obs, handlers, resolver>>

\* one test of the while condition: return proof, or proof += 1
pow_step ==
    /\ Searching
    /\ IF valid_proof(call.last_proof, call.proof)
       THEN call' = [call EXCEPT !.done = TRUE]
       ELSE /\ call.proof < MaxProof
            /\ call' = [call EXCEPT !.proof = call.proof + 1]
    /\ UNCHANGED <<chain, current_transactions, nodes, ticket, kept, obs, handlers, resolver>>

(***************************************************************************)
(* Direct calls of the ledger's methods, with any arguments.               *)
(***************************************************************************)
ProofArgs(ch) == {proof_of_work(last_block(ch).proof), 0, 100} \ {-1}

HashArgs(ch) == {None, EmptyStr, Sentinel, hash(last_block(ch)), hash(ch[1])}

call_new_block ==
    /\ Len(chain) < MaxChain
    /\ \E proof \in ProofArgs(chain), previous_hash \in HashArgs(chain), t \in Times :
         LET block == new_block(chain, current_transactions, proof, previous_hash, t)
         IN  /\ chain' = Append(chain, block)
             /\ current_transactions' = <<>>
             /\ kept' = (kept /\ KeepsContract(chain, proof, previous_hash))
    /\ UNCHANGED <<nodes, ticket, obs, call, handlers, resolver>>

call_new_transaction ==
    /\ RoomForTx
    /\ \E sender \in Senders, recipient \in Recipients, amount \in 1..MaxAmount :
         /\ current_transactions' =
                new_transaction(current_transactions, sender, recipient, amount)
    /\ UNCHANGED <<chain, nodes, ticket, kept, obs, call, handlers, resolver>>

(***************************************************************************)
(* Specifications.                                                         *)
(*   Spec        the handlers and the consensus calls, one at a time       *)
(*   SpecObs     the same, ending with a resolve_conflicts call whose      *)
(*               responses are recorded                                    *)
(*   SpecTicket  Spec, with one submission followed into its block, where  *)
(*               the behaviour ends                                        *)
(*   SpecRaceMine  requests served concurrently: two GET /mine handlers    *)
(*               run statement by statement, with submissions in between   *)
(*   SpecRaceResolve  a GET /mine handler and a resolve_conflicts call     *)
(*               run statement by statement                                *)
(*   SpecBuilt   Spec, from before the ledger is constructed               *)
(*   SpecBodies  Spec, with submissions whose body lacks a key or has a    *)
(*               null amount                                               *)
(*   SpecValidator  mining and submissions, ending with a call of          *)
(*               valid_chain on any list of blocks                         *)
(*   SpecMiner   mining, then a call of proof_of_work                      *)
(*               followed through its loop                                 *)
(*   SpecLedger  the ledger's methods called directly                      *)
(***************************************************************************)
Next == mine \/ transactions_new \/ register \/ resolve

Spec == Init /\ [][Next]_vars

NextObs == obs = None /\ (Next \/ resolve_observed)

SpecObs == Init /\ [][NextObs]_vars

NextTicket == (ticket = None \/ Pending) /\ (Next \/ transactions_new_followed)

SpecTicket == Init /\ [][NextTicket]_vars

\* the statements of mine() and new_block, for handler h
mine_steps(h) ==
    \/ mine_read(h)
    \/ mine_new_transaction(h)
    \/ new_block_build(h)
    \/ new_block_reset(h)
    \/ new_block_append(h)

NextRaceMine == (\E h \in Handlers : mine_steps(h)) \/ transactions_new_beside

SpecRaceMine == Init /\ [][NextRaceMine]_vars

NextRaceResolve ==
    \/ mine_steps(1)
    \/ register
    \/ resolve_start
    \/ resolve_fetch
    \/ resolve_assign

SpecRaceResolve == Init /\ [][NextRaceResolve]_vars

NextBuilt == Blockchain \/ (chain # None /\ Next)

SpecBuilt == Unbuilt /\ [][NextBuilt]_vars

NextBodies == mine \/ transactions_new_any \/ register \/ resolve

SpecBodies == Init /\ [][NextBodies]_vars

NextValidator == call = None /\ (mine \/ transactions_new \/ call_valid_chain)

SpecValidator == Init /\ [][NextValidator]_vars

\* a search that was started goes on running: the loop has no wait in it
NextMiner ==
    \/ call = None /\ mine
    \/ call_proof_of_work
    \/ pow_step

SpecMiner == Init /\ [][NextMiner]_vars /\ WF_vars(pow_step)

NextLedger == call_new_block \/ call_new_transaction

SpecLedger == Init /\ [][NextLedger]_vars

(***************************************************************************)
(* Properties.                                                             *)
(***************************************************************************)
IsPrefix(s, t) == Len(s) <= Len(t) /\ SubSeq(t, 1, Len(s)) = s

\* every consecutive pair of ch is linked by hash and by proof of work
PairwiseLinked(ch) ==
    \A i \in 2..Len(ch) :
        /\ ch[i].previous_hash = hash(ch[i - 1])
        /\ valid_proof(ch[i - 1].proof, ch[i].proof)

\* C1 as stated: a chain built by new_block calls with any arguments
\* (SpecLedger) passes valid_chain.
C1_AnyCommitsValid == valid_chain(chain)

\* C1 as amended: a chain built by new_block calls each given a proof that
\* passes valid_proof against the last block's proof, and no previous_hash or
\* the hash of the last block, passes valid_chain.
C1_ContractCommitsValid == kept => valid_chain(chain)

C1_Witness ==
    /\ kept
    /\ Len(chain) = 3
    /\ chain[3].transactions # <<>>

\* C2: under serialized execution of mine, transaction submission and
\* resolve_conflicts with arbitrary peer responses, every consecutive pair of
\* the ledger's chain satisfies curr.previous_hash = hash(prev) and
\* valid_proof(prev.proof, curr.proof).
C2_ChainPairwiseLinked == PairwiseLinked(chain)

\* a peer's chain was adopted and a block was then mined on it
C2_Witness ==
    /\ Len(chain) = 3
    /\ chain[2].transactions = <<reward("peer1")>>
    /\ chain[3].transactions[Len(chain[3].transactions)] = reward(NodeId)

\* a response that is a candidate (the fetch returned with status 200) whose
\* chain is linked pairwise
Accepted(r) ==
    ~r.exc /\ r.status_code = 200 /\ r.chain # <<>> /\ PairwiseLinked(r.chain)

\* every fetch returned, and no candidate is an empty list
AllAnswered(resps) == \A i \in DOMAIN resps : ~resps[i].exc /\ resps[i].chain # <<>>

\* the candidates that become the best one during the scan: accepted, longer
\* than the local chain and than every accepted candidate before them
AdoptedAt(local, resps) ==
    { i \in DOMAIN resps :
        /\ Accepted(resps[i])
        /\ resps[i].length > Len(local)
        /\ \A j \in 1..(i - 1) : Accepted(resps[j]) => resps[j].length < resps[i].length }

Max(S) == CHOOSE x \in S : \A y \in S : y <= x

\* the scenario of C3: a candidate reported and really of length 5 that is not
\* linked, and one of length 4 that is
Invalid5(r) ==
    ~r.exc /\ r.status_code = 200 /\ r.length = 5 /\ Len(r.chain) = 5
    /\ ~PairwiseLinked(r.chain)

Valid4(r) ==
    ~r.exc /\ r.status_code = 200 /\ r.length = 4 /\ Len(r.chain) = 4
    /\ PairwiseLinked(r.chain)

\* C3: when every peer answers with a non-empty chain, resolve_conflicts
\* adopts a candidate exactly when its reported length exceeds the best length
\* so far (at first the local length) and valid_chain accepts it; afterwards
\* the ledger's chain is the last candidate so adopted and the result is true
\* (the local chain and false when none was adopted).  In particular with a
\* local chain of 3 blocks, an invalid candidate of length 5 and a valid one
\* of length 4, in either order, the valid one is installed.
C3_AdoptsLongerValid ==
    obs # None /\ AllAnswered(obs.resps) =>
        /\ LET A == AdoptedAt(obs.local, obs.resps)
           IN  IF A = {}
               THEN chain = obs.local /\ obs.result = "False"
               ELSE chain = obs.resps[Max(A)].chain /\ obs.result = "True"
        /\ \A i, j \in DOMAIN obs.resps :
              ( /\ Len(obs.local) = 3
                /\ Len(obs.resps) = 2
                /\ Invalid5(obs.resps[i])
                /\ Valid4(obs.resps[j]) )
              => chain = obs.resps[j].chain /\ Len(chain) = 4 /\ obs.result = "True"

C3_Witness ==
    /\ obs # None
    /\ Len(obs.local) = 3
    /\ Len(obs.resps) = 2
    /\ Invalid5(obs.resps[1])
    /\ Valid4(obs.resps[2])
    /\ chain = obs.resps[2].chain
    /\ obs.result = "True"

\* C4: whenever resolve_conflicts returns true the chain it installed has
\* more blocks than the chain it replaced and passes valid_chain, and the
\* chain never gets shorter across a resolve_conflicts call.
C4_ReplacementIsLonger ==
    obs # None =>
        /\ obs.result = "True" => Len(chain) > Len(obs.local) /\ valid_chain(chain)
        /\ Len(chain) >= Len(obs.local)

\* C5: when every peer answers with a non-empty chain and no candidate
\* reports a length above the local chain's, resolve_conflicts returns false
\* and the chain is unchanged; and of two accepted candidates with the same
\* length, above the local length and maximal, the first one visited is
\* installed.
C5_KeepsLocalAndFirstOfTies ==
    obs # None /\ AllAnswered(obs.resps) =>
        /\ (\A i \in DOMAIN obs.resps :
               obs.resps[i].status_code = 200 => obs.resps[i].length <= Len(obs.local))
           => chain = obs.local /\ obs.result = "False"
        /\ \A i, j \in DOMAIN obs.resps :
              ( /\ i < j
                /\ Accepted(obs.resps[i]) /\ Accepted(obs.resps[j])
                /\ obs.resps[i].length = obs.resps[j].length
                /\ obs.resps[i].length > Len(obs.local)
                /\ \A k \in DOMAIN obs.resps :
                      Accepted(obs.resps[k]) => obs.resps[k].length <= obs.resps[i].length
                /\ \A k \in 1..(i - 1) :
                      Accepted(obs.resps[k]) => obs.resps[k].length < obs.resps[i].length )
              => chain = obs.resps[i].chain /\ obs.result = "True"

\* two different valid candidates of the same greater length: the first wins
C5_Witness ==
    /\ obs # None
    /\ Len(obs.resps) = 2
    /\ Accepted(obs.resps[1]) /\ Accepted(obs.resps[2])
    /\ obs.resps[1].length = obs.resps[2].length
    /\ obs.resps[1].length > Len(obs.local)
    /\ obs.resps[1].chain # obs.resps[2].chain
    /\ chain = obs.resps[1].chain

\* C6: a peer whose fetch fails or whose (non-empty) chain does not validate
\* is skipped: resolve_conflicts never ends with an error, and its outcome is
\* the one it has on the responses of the other peers.
Fetched(r) == ~r.exc

C6_FailedPeersSkipped ==
    obs # None /\ (\A i \in DOMAIN obs.resps : obs.resps[i].exc \/ obs.resps[i].chain # <<>>) =>
        /\ obs.result # "raise"
        /\ chain = resolve_conflicts(obs.local, SelectSeq(obs.resps, Fetched)).chain

\* C7: the chain is never empty and its first block is the genesis block
\* (index 1, proof 100, previous_hash "1", no transactions).
C7_GenesisFirst ==
    /\ Len(chain) >= 1
    /\ chain[1].index = 1
    /\ chain[1].proof = 100
    /\ chain[1].previous_hash = Sentinel
    /\ chain[1].transactions = <<>>

\* a step that appends a block mined by this node
MinedStep ==
    /\ Len(chain') = Len(chain) + 1
    /\ SubSeq(chain', 1, Len(chain)) = chain
    /\ last_block(chain').transactions # <<>>
    /\ LET txs == last_block(chain').transactions IN txs[Len(txs)] = reward(NodeId)

\* the step commits the pool: new_block got it (with the reward mine() put
\* last) and left it empty
Commits ==
    /\ MinedStep
    /\ last_block(chain').transactions = Append(current_transactions, reward(NodeId))
    /\ current_transactions' = <<>>

\* C8: the block new_block creates holds exactly the pool's contents at the
\* call, in submission order, and the pool is empty afterwards; no other
\* operation (submission, resolve_conflicts, registration) empties or
\* reorders the pool: a submission only appends to it.
C8_PoolCommittedInOrder ==
    [][ /\ MinedStep => Commits
        /\ current_transactions' # current_transactions =>
              \/ Commits
              \/ /\ chain' = chain
                 /\ Len(current_transactions') = Len(current_transactions) + 1
                 /\ IsPrefix(current_transactions, current_transactions') ]_vars

\* two submitted transactions were committed in the order they came in
C8_Witness ==
    /\ current_transactions = <<>>
    /\ Len(chain) >= 2
    /\ Len(last_block(chain).transactions) = 3
    /\ last_block(chain).transactions[1].amount = 2
    /\ last_block(chain).transactions[2].amount = 1
    /\ last_block(chain).transactions[3] = reward(NodeId)

C10_IndexIsPosition == \A i \in 1..Len(chain) : chain[i].index = i

\* a transaction with its three fields, none of them null (in the bodies of
\* the model null occurs as the amount)
Complete(tx) ==
    /\ DOMAIN tx = required
    /\ tx.amount # JsonNull

\* C11: a submission in which sender, recipient or amount is absent or null
\* is rejected and leaves the pool unchanged: no transaction lacking a field
\* or holding a null one is ever in the pool or in a block of the chain.
C11_NoPartialTransaction ==
    /\ \A i \in 1..Len(current_transactions) : Complete(current_transactions[i])
    /\ \A b \in 1..Len(chain) :
          \A i \in 1..Len(chain[b].transactions) : Complete(chain[b].transactions[i])

ValidatorCall == call # None /\ call.fn = "valid_chain"

\* C12: valid_chain returns true for a chain of length 0 and for a chain of
\* length 1, without raising an error.
C12_ShortChainsValid ==
    ValidatorCall /\ Len(call.chain) <= 1 => call.result = "True"

\* the position of the first block of ch that is not linked to the block
\* before it (ch has one)
FirstBroken(ch) ==
    CHOOSE i \in 2..Len(ch) :
        /\ ~PairwiseLinked(SubSeq(ch, 1, i))
        /\ PairwiseLinked(SubSeq(ch, 1, i - 1))

\* C13: for every chain of length >= 2, valid_chain returns true exactly when
\* every consecutive pair satisfies curr.previous_hash = hash(prev) and
\* valid_proof(prev.proof, curr.proof); it returns false at the first failing
\* pair, inspecting (printing) no pair after it, whether the broken link is
\* the first or the last; and the call changes neither the ledger's chain,
\* pool and node set nor the list it inspects.
C13_ValidIffAllPairsLinked ==
    [][ call = None /\ call' # None /\ call'.fn = "valid_chain"
        /\ Len(call'.chain) >= 2 =>
          /\ call'.result = IF PairwiseLinked(call'.chain) THEN "True" ELSE "False"
          /\ call'.printed = IF PairwiseLinked(call'.chain)
                             THEN Len(call'.chain) - 1
                             ELSE FirstBroken(call'.chain) - 1
          /\ UNCHANGED <<chain, current_transactions, nodes>> ]_vars

\* a chain whose first link alone is broken, and one whose last link alone
\* is, were each rejected at that link
C13_WitnessFirst ==
    /\ ValidatorCall
    /\ Len(call.chain) = 4
    /\ ~PairwiseLinked(SubSeq(call.chain, 1, 2))
    /\ PairwiseLinked(Tail(call.chain))
    /\ call.result = "False"
    /\ call.printed = 1

C13_Witness ==
    /\ ValidatorCall
    /\ Len(call.chain) = 4
    /\ PairwiseLinked(SubSeq(call.chain, 1, 3))
    /\ ~PairwiseLinked(call.chain)
    /\ call.result = "False"
    /\ call.printed = 3
    /\ Len(chain) = 2

\* some proof within the range followed passes valid_proof
Findable(last_proof) == \E p \in 0..MaxProof : valid_proof(last_proof, p)

\* the smallest one
SmallestProof(last_proof) ==
    CHOOSE p \in 0..MaxProof :
        /\ valid_proof(last_proof, p)
        /\ \A q \in 0..(p - 1) : ~valid_proof(last_proof, q)

SearchDone == call # None /\ call.fn = "proof_of_work" /\ call.done

\* C14: for every last_proof for which a satisfying proof exists (within
\* MaxProof) the search of proof_of_work ends, and it returns the smallest
\* non-negative p with valid_proof(last_proof, p); the result is the same for
\* the same last_proof whatever the ledger's state, it is what the search run
\* inside mine() gives, and no step of the search changes the ledger's chain,
\* pool or node set.
C14_SearchReturnsSmallest ==
    /\ [](SearchDone =>
            /\ Findable(call.last_proof)
            /\ call.proof = SmallestProof(call.last_proof)
            /\ call.proof = proof_of_work(call.last_proof))
    /\ [][ Searching \/ Searching' =>
              UNCHANGED <<chain, current_transactions, nodes>> ]_vars
    /\ \A last_proof \in LastProofs :
          (Searching /\ call.last_proof = last_proof /\ Findable(last_proof))
              ~> SearchDone

\* the search for the proof of the block mine() would add to a chain of two
\* blocks ended after rejecting smaller values
C14_Witness ==
    /\ SearchDone
    /\ Len(chain) = 2
    /\ call.last_proof = last_block(chain).proof
    /\ call.proof > 0

\* C15: every newly constructed ledger has a chain of exactly one block with
\* index 1, proof 100, previous_hash "1" and no transactions, and an empty
\* pool.
C15_NewLedgerIsGenesis ==
    [][ chain = None =>
          /\ Len(chain') = 1
          /\ chain'[1].index = 1
          /\ chain'[1].proof = 100
          /\ chain'[1].previous_hash = Sentinel
          /\ chain'[1].transactions = <<>>
          /\ current_transactions' = <<>> ]_vars

\* the ledger right after its construction
C15_Witness ==
    /\ Len(chain) = 1
    /\ chain[1].index = 1
    /\ chain[1].proof = 100
    /\ chain[1].previous_hash = Sentinel
    /\ current_transactions = <<>>
    /\ nodes = {}

\* the step is handler h's append of its block to the chain
Appends(h) == handlers[h].pc = "append" /\ handlers'[h].pc = "idle"

\* the last block of ch passes the checks of valid_chain against the block
\* before it
LastLinked(ch) ==
    /\ last_block(ch).previous_hash = hash(ch[Len(ch) - 1])
    /\ valid_proof(ch[Len(ch) - 1].proof, last_block(ch).proof)

\* C16 as stated: if resolve_conflicts replaces the chain between a mine's
\* read of the last block and its commit, the chain after the commit has a
\* last block that fails the pairwise check against its predecessor.
C16_ReplacementCorruptsLinkage ==
    [][ \A h \in Handlers :
          Appends(h) /\ "replace" \in handlers[h].during => ~LastLinked(chain') ]_vars

\* C16 as amended: if resolve_conflicts replaces the chain between a mine's
\* read of the last block and its commit, and the block the commit is
\* appended to is not the block that was read, the chain after the commit has
\* a last block that fails the pairwise check against its predecessor: its
\* previous_hash is the hash of the block that was read.
C16_ReplacementCorruptsUnlessSameLast ==
    [][ \A h \in Handlers :
          ( /\ Appends(h)
            /\ "replace" \in handlers[h].during
            /\ last_block(chain) # handlers[h].last_block )
          => /\ ~LastLinked(chain')
             /\ last_block(chain').previous_hash = hash(handlers[h].last_block)
             /\ last_block(chain').previous_hash # hash(last_block(chain)) ]_vars

\* a block of this node on top of an adopted chain of a peer, carrying the
\* hash of another block
C16_Witness ==
    /\ Len(chain) >= 3
    /\ chain[Len(chain) - 1].transactions = <<reward("peer1")>>
    /\ last_block(chain).transactions = <<reward(NodeId)>>
    /\ last_block(chain).previous_hash # hash(chain[Len(chain) - 1])

\* C17 as stated: if a transaction is submitted between a mine's read of the
\* last block and its commit, the chain after the commit fails the pairwise
\* hash and proof check.
C17_SubmissionCorruptsLinkage ==
    [][ \A h \in Handlers :
          Appends(h) /\ "submit" \in handlers[h].during => ~PairwiseLinked(chain') ]_vars

\* C17 as amended: if transactions are submitted between a mine's read of
\* the last block and its commit, and no other commit and no chain
\* replacement happens in between, the block is appended to the block that
\* was read and passes the pairwise check against it; a chain that was
\* linked stays linked.
C17_SubmissionKeepsLinkage ==
    [][ \A h \in Handlers :
          ( /\ Appends(h)
            /\ "submit" \in handlers[h].during
            /\ handlers[h].during \cap {"commit", "replace"} = {} )
          => /\ last_block(chain) = handlers[h].last_block
             /\ LastLinked(chain')
             /\ PairwiseLinked(chain) => PairwiseLinked(chain') ]_vars

\* a linked chain whose second block holds a transaction that was submitted
\* after mine() had put its reward into the pool
C17_Witness ==
    /\ Len(chain) = 2
    /\ PairwiseLinked(chain)
    /\ Len(chain[2].transactions) = 2
    /\ chain[2].transactions[1] = reward(NodeId)
    /\ chain[2].transactions[2].sender \in Senders

\* C18: when two mine handlers have read the same last block before either
\* commits, the second commit also appends its block, and the chain then
\* fails valid_chain: the second block carries the hash of the block both
\* read and the proof found from it, not the hash of the first new block.
C18_SecondCommitBreaksChain ==
    [][ \A h \in Handlers :
          Appends(h) /\ "raced" \in handlers[h].during =>
            /\ Len(chain') = Len(chain) + 1
            /\ ~valid_chain(chain')
            /\ last_block(chain').previous_hash = hash(handlers[h].last_block)
            /\ last_block(chain').proof = proof_of_work(handlers[h].last_block.proof)
            /\ last_block(chain').previous_hash # hash(last_block(chain)) ]_vars

\* two blocks mined by this node on the same predecessor
C18_Witness ==
    /\ Len(chain) = 3
    /\ chain[2].previous_hash = chain[3].previous_hash
    /\ chain[2].proof = chain[3].proof
    /\ reward(NodeId) \in {chain[2].transactions[i] : i \in 1..Len(chain[2].transactions)}
    /\ ~valid_chain(chain)

\* the chains a peer may serve
ServedChains == { r.chain : r \in Responses }

\* C19: a commit appends exactly one block and leaves every block committed
\* before unchanged; a submission leaves the chain, and so the transactions
\* of every committed block, unchanged; a block is removed or replaced only
\* when resolve_conflicts installs a chain served by a peer, which leaves the
\* pool alone.
C19_CommittedBlocksKept ==
    [][ /\ \/ chain' = chain
           \/ /\ Len(chain') = Len(chain) + 1
              /\ IsPrefix(chain, chain')
              /\ Commits
           \/ /\ chain' \in ServedChains
              /\ current_transactions' = current_transactions
        /\ Len(current_transactions') > Len(current_transactions) => chain' = chain ]_vars

\* a block with a submitted transaction, a block committed after it, and a
\* transaction submitted after that
C19_Witness ==
    /\ Len(chain) = 3
    /\ Len(chain[2].transactions) = 2
    /\ chain[2].transactions[2] = reward(NodeId)
    /\ chain[3].transactions = <<reward(NodeId)>>
    /\ Len(current_transactions) = 1

\* C20: every block a mine handler commits when handlers run one at a time
\* holds the transactions that were pending when the handler started, in
\* their order, followed by the reward (sender "0", recipient the node's id,
\* amount 1) as its last entry, and no other transaction from sender "0"; so
\* a mined block has at least one transaction.
C20_MinedBlockEndsWithReward ==
    [][ Len(chain') = Len(chain) + 1 =>
          LET txs == last_block(chain').transactions
          IN  /\ IsPrefix(chain, chain')
              /\ Len(txs) = Len(current_transactions) + 1
              /\ SubSeq(txs, 1, Len(txs) - 1) = current_transactions
              /\ txs[Len(txs)] = [sender |-> "0", recipient |-> NodeId, amount |-> 1]
              /\ Cardinality({i \in 1..Len(txs) : txs[i].sender = "0"}) = 1 ]_vars

\* a block mined from an empty pool and a block mined from a pool of two
C20_Witness ==
    /\ Len(chain) = 3
    /\ chain[2].transactions = <<reward(NodeId)>>
    /\ Len(chain[3].transactions) = 3
    /\ chain[3].transactions[3] = reward(NodeId)
    /\ chain[3].transactions[1].sender \in Senders
    /\ chain[3].transactions[2].sender \in Senders

====
